---- MODULE Spec2Model ----
(***************************************************************************)
(* Model of soundstreamer.py: PipewireManager (the link registry and the   *)
(* pw-dump / pw-link commands it drives) together with the shared PipeWire *)
(* graph that other processes also change.                                 *)
(***************************************************************************)
EXTENDS Integers, Sequences, FiniteSets, TLC

\* Largest registry length explored (create_link is not started beyond it).
MaxReg == 2

\* Largest registry length explored through the window (create_links is not
\* started when its selection could take the registry beyond it).
MaxLinks == 3

\* Node ids handed to the manager.  Two ids give both directions of a link,
\* self pairs, and entries different from the pair an operation is about.
Nodes == {1, 2}

\* Python's None, the value of dict.get on a missing key.
None == 0

Pairs == Nodes \X Nodes

\* Nodes listed in source_list (applications playing audio) and in
\* target_list (microphones).
Apps == {1, 2}
Mics == {2}

LinkType == "PipeWire:Interface:Link"
NodeType == "PipeWire:Interface:Node"

\* What one run of pw-dump can do: exit 0 with a JSON document, exit
\* non-zero, or exit 0 with output json.loads rejects.
QueryOutcomes == {"ok", "nonzero", "badjson"}

\* What one run of pw-link can do: exit 0, exit non-zero, or fail to spawn
\* (subprocess.run raises).
Outcomes == {"exit0", "nonzero", "spawnfail"}

\* internal_links, graph: the registry and the shared graph; last: the
\* manager call just made.  links_list: the item data of the window's
\* links_list; accepted: closeEvent has accepted the close; ui: the window
\* handler just run.
VARIABLES internal_links, graph, last, links_list, accepted, ui

vars == <<internal_links, graph, last, links_list, accepted, ui>>

window == <<links_list, accepted, ui>>

----------------------------------------------------------------------------
(* Helpers *)

RECURSIVE Count(_, _)
Count(s, e) ==
    IF s = <<>> THEN 0
    ELSE (IF Head(s) = e THEN 1 ELSE 0) + Count(Tail(s), e)

Contains(s, e) == \E i \in DOMAIN s : s[i] = e

Others(s, e) == SelectSeq(s, LAMBDA x : x # e)

list_remove_every(s, e) ==
    [raised |-> ~Contains(s, e), list |-> Others(s, e)]

\* Python list.remove(e): erases the first occurrence, raises ValueError
\* when e is absent.
list_remove(s, e) ==
    IF Contains(s, e)
    THEN LET i == CHOOSE k \in DOMAIN s :
                      s[k] = e /\ \A j \in 1..(k - 1) : s[j] # e
         IN  [raised |-> FALSE,
              list   |-> SubSeq(s, 1, i - 1) \o SubSeq(s, i + 1, Len(s))]
    ELSE [raised |-> TRUE, list |-> s]

----------------------------------------------------------------------------
(* The external commands *)

\* The parsed document of a successful pw-dump: one object per node and one
\* per link of the graph.
pw_dump(g) ==
    {[type |-> NodeType, id |-> n,
      output_node_id |-> None, input_node_id |-> None] : n \in Nodes}
    \cup
    {[type |-> LinkType, id |-> None,
      output_node_id |-> p[1], input_node_id |-> p[2]] : p \in g}

CreateCmd(a, b) == [tool |-> "pw-link", d |-> FALSE, out |-> a, in |-> b]
DeleteCmd(a, b) == [tool |-> "pw-link", d |-> TRUE, out |-> a, in |-> b]

\* Effect of one command on the shared graph: exit 0 of pw-link means the
\* link is there afterwards, exit 0 of pw-link -d means it is gone.
pw_link(g, cmd, rc) ==
    IF rc # "exit0" THEN g
    ELSE IF cmd.d THEN g \ {<<cmd.out, cmd.in>>}
    ELSE g \cup {<<cmd.out, cmd.in>>}

----------------------------------------------------------------------------
(* PipewireManager *)

link_exists_swapped(output_node_id, input_node_id, q, g) ==
    IF q = "nonzero" THEN FALSE
    ELSE IF q = "badjson" THEN FALSE
    ELSE \E obj \in pw_dump(g) :
            /\ obj.type = LinkType
            /\ obj.output_node_id = input_node_id
            /\ obj.input_node_id = output_node_id

link_exists_failclosed(output_node_id, input_node_id, q, g) ==
    IF q = "nonzero" THEN TRUE
    ELSE IF q = "badjson" THEN TRUE
    ELSE \E obj \in pw_dump(g) :
            /\ obj.type = LinkType
            /\ obj.output_node_id = output_node_id
            /\ obj.input_node_id = input_node_id

link_exists_undirected(output_node_id, input_node_id, q, g) ==
    IF q = "nonzero" THEN FALSE
    ELSE IF q = "badjson" THEN FALSE
    ELSE \E obj \in pw_dump(g) :
            /\ obj.type = LinkType
            /\ {obj.output_node_id, obj.input_node_id}
                  = {output_node_id, input_node_id}

link_exists(output_node_id, input_node_id, q, g) ==
    IF q = "nonzero" THEN FALSE          \* returncode != 0
    ELSE IF q = "badjson" THEN FALSE     \* json.loads raises, caught
    ELSE \E obj \in pw_dump(g) :
            /\ obj.type = LinkType
            /\ obj.output_node_id = output_node_id
            /\ obj.input_node_id = input_node_id

create_link_no_append(reg, g, a, b, q, rc) ==
    IF link_exists(a, b, q, g)
    THEN [links |-> reg, graph |-> g, ret |-> FALSE,
          cmds |-> <<>>, rcs |-> <<>>, exc |-> FALSE]
    ELSE [links |-> reg,
          graph |-> pw_link(g, CreateCmd(a, b), rc),
          ret   |-> (rc = "exit0"),
          cmds  |-> <<CreateCmd(a, b)>>, rcs |-> <<rc>>, exc |-> FALSE]

create_link_no_check(reg, g, a, b, q, rc) ==
    [links |-> IF rc = "exit0" THEN Append(reg, <<a, b>>) ELSE reg,
     graph |-> pw_link(g, CreateCmd(a, b), rc),
     ret   |-> (rc = "exit0"),
     cmds  |-> <<CreateCmd(a, b)>>, rcs |-> <<rc>>, exc |-> FALSE]

create_link_append_always(reg, g, a, b, q, rc) ==
    IF link_exists(a, b, q, g)
    THEN [links |-> reg, graph |-> g, ret |-> FALSE,
          cmds |-> <<>>, rcs |-> <<>>, exc |-> FALSE]
    ELSE [links |-> Append(reg, <<a, b>>),
          graph |-> pw_link(g, CreateCmd(a, b), rc),
          ret   |-> (rc = "exit0"),
          cmds  |-> <<CreateCmd(a, b)>>, rcs |-> <<rc>>, exc |-> FALSE]

create_link(reg, g, a, b, q, rc) ==
    IF link_exists(a, b, q, g)
    THEN [links |-> reg, graph |-> g, ret |-> FALSE,
          cmds |-> <<>>, rcs |-> <<>>, exc |-> FALSE]
    ELSE [links |-> IF rc = "exit0" THEN Append(reg, <<a, b>>) ELSE reg,
          graph |-> pw_link(g, CreateCmd(a, b), rc),
          ret   |-> (rc = "exit0"),
          cmds  |-> <<CreateCmd(a, b)>>, rcs |-> <<rc>>, exc |-> FALSE]

remove_link_keep(reg, g, a, b, rc) ==
    [links |-> reg,
     graph |-> pw_link(g, DeleteCmd(a, b), rc),
     ret   |-> (rc = "exit0" /\ Contains(reg, <<a, b>>)),
     cmds  |-> <<DeleteCmd(a, b)>>, rcs |-> <<rc>>, exc |-> FALSE]

remove_link_erase_on_failure(reg, g, a, b, rc) ==
    LET r == list_remove(reg, <<a, b>>)
    IN  [links |-> r.list,
         graph |-> pw_link(g, DeleteCmd(a, b), rc),
         ret   |-> (rc = "exit0" /\ ~r.raised),
         cmds  |-> <<DeleteCmd(a, b)>>, rcs |-> <<rc>>, exc |-> FALSE]

\* remove_link with list.remove and subprocess.run outside any try.
remove_link_uncaught(reg, g, a, b, rc) ==
    LET r == list_remove(reg, <<a, b>>)
    IN  [links |-> IF rc = "exit0" THEN r.list ELSE reg,
         graph |-> pw_link(g, DeleteCmd(a, b), rc),
         ret   |-> (rc = "exit0" /\ ~r.raised),
         cmds  |-> <<DeleteCmd(a, b)>>, rcs |-> <<rc>>,
         exc   |-> (rc = "spawnfail" \/ (rc = "exit0" /\ r.raised))]

remove_link(reg, g, a, b, rc) ==
    LET r == list_remove(reg, <<a, b>>)
    IN  [links |-> IF rc = "exit0" THEN r.list ELSE reg,
         graph |-> pw_link(g, DeleteCmd(a, b), rc),
         \* list.remove raising ValueError lands in the except branch
         ret   |-> (rc = "exit0" /\ ~r.raised),
         cmds  |-> <<DeleteCmd(a, b)>>, rcs |-> <<rc>>,
         \* except Exception (line 79) catches the spawn failure and the
         \* ValueError: nothing leaves the method
         exc   |-> FALSE]

\* The loop written over the live list instead of a copy: the i-th
\* iteration takes the i-th entry of the registry as it then is.
RECURSIVE remove_all_loop_live(_, _, _, _, _)
remove_all_loop_live(copy, i, reg, g, rcs) ==
    IF i > Len(reg)
    THEN [links |-> reg, graph |-> g, cmds |-> <<>>, exc |-> FALSE]
    ELSE LET r    == remove_link(reg, g, reg[i][1], reg[i][2], rcs[i])
             rest == remove_all_loop_live(copy, i + 1, r.links, r.graph, rcs)
         IN  IF r.exc
             THEN [links |-> r.links, graph |-> r.graph, cmds |-> r.cmds,
                   exc |-> TRUE]
             ELSE [rest EXCEPT !.cmds = r.cmds \o rest.cmds]

\* The for loop of remove_all_links over the copy internal_links[:]; cmds
\* are the commands it runs, in order.
RECURSIVE remove_all_loop(_, _, _, _, _)
remove_all_loop(copy, i, reg, g, rcs) ==
    IF i > Len(copy)
    THEN [links |-> reg, graph |-> g, cmds |-> <<>>, exc |-> FALSE]
    ELSE LET r    == remove_link(reg, g, copy[i][1], copy[i][2], rcs[i])
             rest == remove_all_loop(copy, i + 1, r.links, r.graph, rcs)
         IN  IF r.exc
             THEN [links |-> r.links, graph |-> r.graph, cmds |-> r.cmds,
                   exc |-> TRUE]
             ELSE [rest EXCEPT !.cmds = r.cmds \o rest.cmds]

remove_all_links_no_clear(reg, g, rcs) ==
    LET r == remove_all_loop(reg, 1, reg, g, rcs)
    IN  [links |-> r.links,
         graph |-> r.graph,
         cmds  |-> r.cmds,
         rcs   |-> SubSeq(rcs, 1, Len(r.cmds)),
         exc   |-> r.exc]

remove_all_links(reg, g, rcs) ==
    LET r == remove_all_loop(reg, 1, reg, g, rcs)
    IN  [links |-> IF r.exc THEN r.links
                   ELSE <<>>,            \* internal_links.clear()
         graph |-> r.graph,
         cmds  |-> r.cmds,
         rcs   |-> SubSeq(rcs, 1, Len(r.cmds)),
         exc   |-> r.exc]

----------------------------------------------------------------------------
(* AudioRouterApp.  Items of the list widgets are modelled by their      *)
(* UserRole data; the item text (node names) is display only.            *)

\* The items of a list widget picked out by a set of rows, in row order.
RECURSIVE SortedSeq(_)
SortedSeq(S) ==
    IF S = {} THEN <<>>
    ELSE LET m == CHOOSE x \in S : \A y \in S : x <= y
         IN  <<m>> \o SortedSeq(S \ {m})

\* The order in which the nested for loops of create_links visit the
\* selected sources and targets.
SelectedPairs(sources, targets) ==
    [k \in 1..(Len(sources) * Len(targets)) |->
        <<sources[((k - 1) \div Len(targets)) + 1],
          targets[((k - 1) % Len(targets)) + 1]>>]

\* update_links_list: one item per registry entry, in registry order.
update_links_list(reg) == [i \in DOMAIN reg |-> reg[i]]

NoCalls(reg, g, list) ==
    [links |-> reg, graph |-> g, list |-> list, count |-> 0,
     calls |-> <<>>, rcs |-> <<>>, rets |-> <<>>, exc |-> FALSE]

\* The loops with a break after the first create_link that returns False.
RECURSIVE create_links_loop_break(_, _, _, _, _, _, _)
create_links_loop_break(pairs, k, reg, g, list, qs, rcs) ==
    IF k > Len(pairs) THEN NoCalls(reg, g, list)
    ELSE LET r     == create_link(reg, g, pairs[k][1], pairs[k][2],
                                  qs[k], rcs[k])
             rc    == IF r.rcs = <<>> THEN "none" ELSE r.rcs[1]
             shown == IF r.ret THEN update_links_list(r.links) ELSE list
             rest  == IF r.ret
                      THEN create_links_loop_break(pairs, k + 1, r.links,
                                                   r.graph, shown, qs, rcs)
                      ELSE NoCalls(r.links, r.graph, shown)
         IN  [rest EXCEPT !.count = (IF r.ret THEN 1 ELSE 0) + @,
                          !.calls = <<pairs[k]>> \o @,
                          !.rcs   = <<rc>> \o @,
                          !.rets  = <<r.ret>> \o @]

\* The nested for loops of create_links, from the k-th visited pair on.
RECURSIVE create_links_loop(_, _, _, _, _, _, _)
create_links_loop(pairs, k, reg, g, list, qs, rcs) ==
    IF k > Len(pairs) THEN NoCalls(reg, g, list)
    ELSE LET r     == create_link(reg, g, pairs[k][1], pairs[k][2],
                                  qs[k], rcs[k])
             rc    == IF r.rcs = <<>> THEN "none" ELSE r.rcs[1]
             shown == IF r.ret THEN update_links_list(r.links) ELSE list
             rest  == create_links_loop(pairs, k + 1, r.links, r.graph,
                                        shown, qs, rcs)
         IN  IF r.exc
             THEN [NoCalls(r.links, r.graph, list) EXCEPT
                      !.calls = <<pairs[k]>>, !.rcs = <<rc>>,
                      !.rets = <<FALSE>>, !.exc = TRUE]
             ELSE [rest EXCEPT !.count = (IF r.ret THEN 1 ELSE 0) + @,
                               !.calls = <<pairs[k]>> \o @,
                               !.rcs   = <<rc>> \o @,
                               !.rets  = <<r.ret>> \o @]

\* success_count incremented for every create_link call.
create_links_count_calls(reg, g, list, sources, targets, qs, rcs) ==
    IF sources = <<>> \/ targets = <<>> THEN NoCalls(reg, g, list)
    ELSE LET r == create_links_loop(SelectedPairs(sources, targets), 1,
                                    reg, g, list, qs, rcs)
         IN  [r EXCEPT !.count = Len(r.calls)]

create_links(reg, g, list, sources, targets, qs, rcs) ==
    IF sources = <<>> \/ targets = <<>>
    THEN NoCalls(reg, g, list)           \* warning box, return
    ELSE create_links_loop(SelectedPairs(sources, targets), 1,
                           reg, g, list, qs, rcs)

NoneTaken(reg, g) ==
    [links |-> reg, graph |-> g, taken |-> {},
     calls |-> <<>>, rcs |-> <<>>, rets |-> <<>>, exc |-> FALSE]

\* The for loop of remove_selected_links over the selected rows sel of
\* list; taken are the rows whose item takeItem removes.
RECURSIVE remove_selected_loop(_, _, _, _, _, _)
remove_selected_loop(list, sel, k, reg, g, rcs) ==
    IF k > Len(sel) THEN NoneTaken(reg, g)
    ELSE LET item == list[sel[k]]
             r    == remove_link(reg, g, item[1], item[2], rcs[k])
             rest == remove_selected_loop(list, sel, k + 1, r.links,
                                          r.graph, rcs)
         IN  IF r.exc
             THEN [NoneTaken(r.links, r.graph) EXCEPT
                      !.calls = <<item>>, !.rcs = r.rcs,
                      !.rets = <<FALSE>>, !.exc = TRUE]
             ELSE [rest EXCEPT
                      !.taken = (IF r.ret THEN {sel[k]} ELSE {}) \cup @,
                      !.calls = <<item>> \o @,
                      !.rcs   = r.rcs \o @,
                      !.rets  = <<r.ret>> \o @]

Without(list, taken) ==
    LET keep == SortedSeq(DOMAIN list \ taken)
    IN  [i \in DOMAIN keep |-> list[keep[i]]]

\* Every selected item is taken from the list, whatever remove_link
\* returned.
remove_selected_links_take_all(reg, g, list, sel, rcs) ==
    LET r == remove_selected_loop(list, sel, 1, reg, g, rcs)
    IN  [links |-> r.links, graph |-> r.graph,
         list  |-> Without(list, {sel[k] : k \in DOMAIN sel}),
         calls |-> r.calls, rcs |-> r.rcs, rets |-> r.rets,
         exc   |-> r.exc]

remove_selected_links(reg, g, list, sel, rcs) ==
    \* no selection: warning box, return (the loop then has no iteration)
    LET r == remove_selected_loop(list, sel, 1, reg, g, rcs)
    IN  [links |-> r.links, graph |-> r.graph,
         list  |-> Without(list, r.taken),
         calls |-> r.calls, rcs |-> r.rcs, rets |-> r.rets,
         exc   |-> r.exc]

\* closeEvent accepting the close without the cleanup.
closeEvent_accept_only(reg, g, rcs) ==
    [links |-> reg, graph |-> g, cmds |-> <<>>, rcs |-> <<>>,
     steps |-> <<"accept">>, accepted |-> TRUE, exc |-> FALSE]

closeEvent(reg, g, rcs) ==
    LET r == remove_all_links(reg, g, rcs)
    IN  [links |-> r.links, graph |-> r.graph,
         cmds  |-> r.cmds, rcs |-> r.rcs,
         steps |-> IF r.exc THEN <<"remove_all_links">>
                   ELSE <<"remove_all_links", "accept">>,
         accepted |-> ~r.exc,
         exc   |-> r.exc]

----------------------------------------------------------------------------
(* State machine *)

\* The record of the step just taken: the call, what the commands did,
\* what the call returned, and the registry and graph it started from.
\* after_create: the step before it was a create of the same pair that
\* returned True.
NoCall ==
    [op |-> "none", a |-> None, b |-> None, q |-> "none", rcs |-> <<>>,
     ret |-> FALSE, cmds |-> <<>>, pre |-> <<>>, pregraph |-> {},
     after_create |-> FALSE]

AfterCreate(a, b) ==
    last.op = "create" /\ last.a = a /\ last.b = b /\ last.ret

\* The record of the window handler just run: the manager calls it made,
\* the outcome and result of each, and the registry and list it started
\* from.
NoUi ==
    [op |-> "none", calls |-> <<>>, rcs |-> <<>>, rets |-> <<>>,
     count |-> 0, sources |-> <<>>, targets |-> <<>>, sel |-> <<>>,
     steps |-> <<>>, pre |-> <<>>, prelist |-> <<>>, exc |-> FALSE]

Init ==
    /\ internal_links = <<>>
    /\ graph = {}
    /\ last = NoCall
    /\ links_list = <<>>
    /\ accepted = FALSE
    /\ ui = NoUi

Create(a, b, q, rc) ==
    LET r == create_link(internal_links, graph, a, b, q, rc)
    IN  /\ Len(internal_links) < MaxReg
        /\ r.rcs = <<>> => rc = "exit0"   \* rc is not drawn when unused
        /\ UNCHANGED window
        /\ internal_links' = r.links
        /\ graph' = r.graph
        /\ last' = [op |-> "create", a |-> a, b |-> b, q |-> q,
                    rcs |-> r.rcs, ret |-> r.ret, cmds |-> r.cmds,
                    pre |-> internal_links, pregraph |-> graph,
                    after_create |-> AfterCreate(a, b)]

Exists(a, b, q) ==
    /\ UNCHANGED <<internal_links, graph>>
    /\ UNCHANGED window
    /\ last' = [op |-> "exists", a |-> a, b |-> b, q |-> q,
                rcs |-> <<>>, ret |-> link_exists(a, b, q, graph),
                cmds |-> <<>>, pre |-> internal_links, pregraph |-> graph,
                after_create |-> AfterCreate(a, b)]

Remove(a, b, rc) ==
    LET r == remove_link(internal_links, graph, a, b, rc)
    IN  /\ UNCHANGED window
        /\ internal_links' = r.links
        /\ graph' = r.graph
        /\ last' = [op |-> "remove", a |-> a, b |-> b, q |-> "none",
                    rcs |-> r.rcs, ret |-> r.ret, cmds |-> r.cmds,
                    pre |-> internal_links, pregraph |-> graph,
                    after_create |-> AfterCreate(a, b)]

RemoveAll(rcs) ==
    LET r == remove_all_links(internal_links, graph, rcs)
    IN  /\ Len(rcs) = Len(internal_links)
        /\ UNCHANGED window
        /\ internal_links' = r.links
        /\ graph' = r.graph
        /\ last' = [op |-> "removeAll", a |-> None, b |-> None,
                    q |-> "none", rcs |-> r.rcs, ret |-> FALSE,
                    cmds |-> r.cmds, pre |-> internal_links,
                    pregraph |-> graph, after_create |-> FALSE]

\* Another process links or unlinks two nodes of the shared graph.
EnvLink(p) ==
    /\ p \notin graph
    /\ graph' = graph \cup {p}
    /\ UNCHANGED internal_links
    /\ UNCHANGED window
    /\ last' = [NoCall EXCEPT !.op = "env", !.pre = internal_links,
                              !.pregraph = graph]

EnvUnlink(p) ==
    /\ p \in graph
    /\ graph' = graph \ {p}
    /\ UNCHANGED internal_links
    /\ UNCHANGED window
    /\ last' = [NoCall EXCEPT !.op = "env", !.pre = internal_links,
                              !.pregraph = graph]

RcSeqs == UNION {[1..n -> Outcomes] : n \in 0..(MaxReg + 1)}

Next ==
    \/ \E a \in Nodes, b \in Nodes, q \in QueryOutcomes, rc \in Outcomes :
          Create(a, b, q, rc)
    \/ \E a \in Nodes, b \in Nodes, q \in QueryOutcomes : Exists(a, b, q)
    \/ \E a \in Nodes, b \in Nodes, rc \in Outcomes : Remove(a, b, rc)
    \/ \E rcs \in RcSeqs : RemoveAll(rcs)
    \/ \E p \in Pairs : EnvLink(p)
    \/ \E p \in Pairs : EnvUnlink(p)

Spec == Init /\ [][Next]_vars

----------------------------------------------------------------------------
(* The window: the manager is driven only by the handlers of              *)
(* AudioRouterApp.                                                        *)

Selections(S) == {SortedSeq(T) : T \in SUBSET S}

CreateLinks(sources, targets, qs, rcs) ==
    /\ ~accepted
    /\ Len(internal_links) + Len(sources) * Len(targets) <= MaxLinks
    /\ \E r \in {create_links(internal_links, graph, links_list,
                              sources, targets, qs, rcs)} :
        /\ internal_links' = r.links
        /\ graph' = r.graph
        /\ links_list' = r.list
        /\ ui' = [NoUi EXCEPT !.op = "create_links",
                              !.calls = r.calls, !.rcs = r.rcs,
                              !.rets = r.rets, !.count = r.count,
                              !.sources = sources, !.targets = targets,
                              !.pre = internal_links,
                              !.prelist = links_list, !.exc = r.exc]
        /\ UNCHANGED <<last, accepted>>

RemoveSelectedLinks(sel, rcs) ==
    /\ ~accepted
    /\ \E r \in {remove_selected_links(internal_links, graph, links_list,
                                       sel, rcs)} :
        /\ internal_links' = r.links
        /\ graph' = r.graph
        /\ links_list' = r.list
        /\ ui' = [NoUi EXCEPT !.op = "remove_selected_links",
                              !.calls = r.calls, !.rcs = r.rcs,
                              !.rets = r.rets, !.sel = sel,
                              !.pre = internal_links,
                              !.prelist = links_list, !.exc = r.exc]
        /\ UNCHANGED <<last, accepted>>

CloseEvent(rcs) ==
    /\ ~accepted
    /\ Len(rcs) = Len(internal_links)
    /\ \E r \in {closeEvent(internal_links, graph, rcs)} :
        /\ internal_links' = r.links
        /\ graph' = r.graph
        /\ accepted' = r.accepted
        /\ ui' = [NoUi EXCEPT !.op = "closeEvent", !.rcs = r.rcs,
                              !.steps = r.steps,
                              !.pre = internal_links,
                              !.prelist = links_list, !.exc = r.exc]
        /\ UNCHANGED <<last, links_list>>

\* Another process links or unlinks an application and a microphone while
\* the window is open (the handlers only ever query and change such pairs).
AppEnvLink(p) ==
    /\ p \notin graph
    /\ graph' = graph \cup {p}
    /\ UNCHANGED <<internal_links, last, links_list, accepted, ui>>

AppEnvUnlink(p) ==
    /\ p \in graph
    /\ graph' = graph \ {p}
    /\ UNCHANGED <<internal_links, last, links_list, accepted, ui>>

AppNext ==
    \/ \E sources \in Selections(Apps), targets \in Selections(Mics) :
          \E qs \in [1..(Len(sources) * Len(targets)) -> QueryOutcomes],
             rcs \in [1..(Len(sources) * Len(targets)) -> Outcomes] :
                CreateLinks(sources, targets, qs, rcs)
    \/ \E sel \in Selections(DOMAIN links_list) :
          \E rcs \in [1..Len(sel) -> Outcomes] :
                RemoveSelectedLinks(sel, rcs)
    \/ \E rcs \in [1..Len(internal_links) -> Outcomes] : CloseEvent(rcs)
    \/ \E p \in Apps \X Mics : AppEnvLink(p)
    \/ \E p \in Apps \X Mics : AppEnvUnlink(p)

AppSpec == Init /\ [][AppNext]_vars

----------------------------------------------------------------------------
(* Properties *)

Pair == <<last.a, last.b>>

InvokedRc == IF last.rcs = <<>> THEN "none" ELSE last.rcs[1]

\* C1: the registry never contains the same (outputNodeId, inputNodeId)
\* pair twice, in any state reachable by create, remove and removeAll calls
\* with any command outcomes and any changes by other processes.
C1_NoDuplicatePair ==
    \A i \in DOMAIN internal_links : \A j \in DOMAIN internal_links :
        i # j => internal_links[i] # internal_links[j]

\* C2: remove(output, input) returns true whenever the delete command exits
\* 0, also when the pair is not in the registry, and then leaves the
\* registry unchanged.
C2_RemoveTrueOnExit0 ==
    (last.op = "remove" /\ InvokedRc = "exit0")
        => /\ last.ret
           /\ ~Contains(last.pre, Pair) => internal_links = last.pre

\* C3 as stated: for every pair with no existing link in the graph,
\* create(a,b) returns true and the registry then holds exactly one (a,b).
C3_Original ==
    (last.op = "create" /\ Pair \notin last.pregraph)
        => /\ last.ret
           /\ Count(internal_links, Pair) = 1

\* C3 amended: for every pair with no existing link in the graph, the
\* creation command is run; when it exits 0, create(a,b) returns true and
\* the registry is the previous registry with one (a,b) appended; when it
\* does not, create returns false and the registry is unchanged.
C3_CreateOnUnlinked ==
    (last.op = "create" /\ Pair \notin last.pregraph)
        => /\ last.cmds = <<CreateCmd(last.a, last.b)>>
           /\ InvokedRc = "exit0"
                => /\ last.ret
                   /\ internal_links = Append(last.pre, Pair)
                   /\ Count(internal_links, Pair) = Count(last.pre, Pair) + 1
           /\ InvokedRc # "exit0"
                => /\ ~last.ret
                   /\ internal_links = last.pre

C3_Witness ==
    /\ last.op = "create"
    /\ Pair \notin last.pregraph
    /\ InvokedRc = "exit0"
    /\ last.ret
    /\ Count(internal_links, Pair) = 1

C5_Original ==
    (last.op = "remove" /\ last.after_create)
        => /\ last.ret
           /\ ~Contains(internal_links, Pair)

\* C5 amended: a remove(a,b) that directly follows a create(a,b) which
\* returned true, and whose delete command exits 0, returns true and erases
\* one (a,b) entry, every other entry staying in place; the registry then
\* no longer contains (a,b) when the create had added the only one.  When
\* the delete command does not exit 0, remove returns false and the
\* registry still contains (a,b).
C5_RoundTrip ==
    (last.op = "remove" /\ last.after_create)
        => /\ InvokedRc = "exit0"
                => /\ last.ret
                   /\ Count(internal_links, Pair) = Count(last.pre, Pair) - 1
                   /\ Others(internal_links, Pair) = Others(last.pre, Pair)
                   /\ Count(last.pre, Pair) = 1
                        => ~Contains(internal_links, Pair)
           /\ InvokedRc # "exit0"
                => /\ ~last.ret
                   /\ internal_links = last.pre
                   /\ Contains(internal_links, Pair)

C5_Witness ==
    /\ last.op = "remove"
    /\ last.after_create
    /\ InvokedRc = "exit0"
    /\ last.ret
    /\ ~Contains(internal_links, Pair)
    /\ internal_links # <<>>

\* C6: removeAll() ends with an empty registry, for every starting registry
\* and however many of the individual deletions fail.
C6_RemoveAllEmpties ==
    last.op = "removeAll" => internal_links = <<>>

C6_Witness ==
    /\ last.op = "removeAll"
    /\ Len(last.pre) >= 2
    /\ \E i \in DOMAIN last.rcs : last.rcs[i] = "nonzero"
    /\ \E i \in DOMAIN last.rcs : last.rcs[i] = "spawnfail"
    /\ internal_links = <<>>

\* C7: when the creation command run by create, or the deletion command
\* run by remove, exits non-zero or cannot be spawned, the call returns
\* false and the registry is what it was before the call.
C7_FailedMutationNoChange ==
    (/\ last.op \in {"create", "remove"}
     /\ InvokedRc \in {"nonzero", "spawnfail"})
        => /\ ~last.ret
           /\ internal_links = last.pre

C7_Witness ==
    /\ last.op = "remove"
    /\ InvokedRc = "spawnfail"
    /\ Contains(last.pre, Pair)
    /\ ~last.ret
    /\ internal_links = last.pre

\* C8: when the query succeeds and the snapshot contains the pair, whether
\* or not this application created it, create returns false, does not run
\* the creation command and leaves the registry unchanged.
C8_CreateOnExistingNoOp ==
    (last.op = "create" /\ last.q = "ok" /\ Pair \in last.pregraph)
        => /\ ~last.ret
           /\ last.cmds = <<>>
           /\ internal_links = last.pre
           /\ graph = last.pregraph

C8_Witness ==
    /\ last.op = "create"
    /\ last.q = "ok"
    /\ Pair \in last.pregraph
    /\ ~Contains(last.pre, Pair)
    /\ last.pre # <<>>
    /\ ~last.ret
    /\ last.cmds = <<>>

\* C9: when the query command exits non-zero or its output cannot be
\* parsed during create(a,b), the creation command is still run, and
\* create's result and registry update depend only on its exit code.
C9_FailOpen ==
    (last.op = "create" /\ last.q \in {"nonzero", "badjson"})
        => /\ last.cmds = <<CreateCmd(last.a, last.b)>>
           /\ InvokedRc = "exit0"
                => last.ret /\ internal_links = Append(last.pre, Pair)
           /\ InvokedRc # "exit0"
                => ~last.ret /\ internal_links = last.pre

C9_Witness ==
    /\ last.op = "create"
    /\ last.q = "badjson"
    /\ Pair \in last.pregraph
    /\ last.cmds = <<CreateCmd(last.a, last.b)>>
    /\ last.ret

\* C10: a step changes the registry only if it is a create(a,b) whose
\* creation command exited 0, which appends (a,b); a remove(a,b) whose
\* deletion command exited 0, which erases one (a,b); or removeAll, which
\* empties it.
C10_Step ==
    internal_links' # internal_links
        => \/ /\ last'.op = "create"
              /\ last'.rcs = <<"exit0">>
              /\ last'.ret
              /\ internal_links' = Append(internal_links, <<last'.a, last'.b>>)
           \/ /\ last'.op = "remove"
              /\ last'.rcs = <<"exit0">>
              /\ last'.ret
              /\ Len(internal_links') = Len(internal_links) - 1
              /\ Count(internal_links', <<last'.a, last'.b>>)
                    = Count(internal_links, <<last'.a, last'.b>>) - 1
              /\ Others(internal_links', <<last'.a, last'.b>>)
                    = Others(internal_links, <<last'.a, last'.b>>)
           \/ /\ last'.op = "removeAll"
              /\ internal_links' = <<>>

C10_Lifecycle == [][C10_Step]_vars

C10_Witness ==
    /\ last.op = "remove"
    /\ last.ret
    /\ Len(last.pre) = 2
    /\ Len(internal_links) = 1
    /\ internal_links[1] # Pair

\* C14: removeAll() runs one deletion command for each entry that was in
\* the registry when it started, in insertion order, also after a deletion
\* failed and also after a deletion erased an entry from the registry.
C14_RemoveAllAttemptsEach ==
    last.op = "removeAll"
        => /\ Len(last.cmds) = Len(last.pre)
           /\ Len(last.rcs) = Len(last.pre)
           /\ \A i \in DOMAIN last.pre :
                 last.cmds[i] = DeleteCmd(last.pre[i][1], last.pre[i][2])

C14_Witness ==
    /\ last.op = "removeAll"
    /\ Len(last.pre) = 2
    /\ last.pre[1] # last.pre[2]
    /\ last.rcs = <<"exit0", "nonzero">>
    /\ last.cmds = <<DeleteCmd(last.pre[1][1], last.pre[1][2]),
                     DeleteCmd(last.pre[2][1], last.pre[2][2])>>

\* C15: exists(output, input) is true exactly when the query succeeded and
\* the graph holds a link from output to input; a link from input to
\* output alone does not make it true and does not keep create(output,
\* input) from running the creation command.
C15_ExistsDirected ==
    /\ last.op = "exists"
          => (last.ret <=> (last.q = "ok" /\ Pair \in last.pregraph))
    /\ (last.op = "create" /\ Pair \notin last.pregraph)
          => last.cmds = <<CreateCmd(last.a, last.b)>>

C15_Witness ==
    /\ last.op = "exists"
    /\ last.q = "ok"
    /\ last.a # last.b
    /\ <<last.b, last.a>> \in last.pregraph
    /\ Pair \notin last.pregraph
    /\ ~last.ret

Succeeded(calls, rets) ==
    LET idx == SortedSeq({k \in DOMAIN calls : rets[k]})
    IN  [i \in DOMAIN idx |-> calls[idx[i]]]

Elems(s) == {s[i] : i \in DOMAIN s}

\* C11: create_links calls create_link exactly once for every pair of
\* selected sources x selected targets, goes on after a pair failed, keeps
\* every link it created, and its success count is the number of calls
\* that returned true.
C11_BatchCreate ==
    ui.op = "create_links"
        => /\ Len(ui.calls) = Len(ui.sources) * Len(ui.targets)
           /\ Len(ui.rets) = Len(ui.calls)
           /\ \A s \in Elems(ui.sources) : \A t \in Elems(ui.targets) :
                 Cardinality({k \in DOMAIN ui.calls : ui.calls[k] = <<s, t>>})
                    = 1
           /\ ui.count = Cardinality({k \in DOMAIN ui.rets : ui.rets[k]})
           /\ ui.count \in 0..(Len(ui.sources) * Len(ui.targets))
           /\ internal_links = ui.pre \o Succeeded(ui.calls, ui.rets)

C11_Witness ==
    /\ ui.op = "create_links"
    /\ Len(ui.sources) = 2
    /\ Len(ui.targets) = 1
    /\ ui.rcs = <<"nonzero", "exit0">>
    /\ ui.rets = <<FALSE, TRUE>>
    /\ ui.count = 1

\* C12: remove_selected_links calls remove_link once per selected item,
\* and takes from the displayed list exactly the items whose call returned
\* true; the other items stay, in their order.
C12_BatchRemove ==
    ui.op = "remove_selected_links"
        => /\ Len(ui.calls) = Len(ui.sel)
           /\ Len(ui.rets) = Len(ui.sel)
           /\ \A k \in DOMAIN ui.sel : ui.calls[k] = ui.prelist[ui.sel[k]]
           /\ links_list =
                 Without(ui.prelist,
                         {ui.sel[k] : k \in {j \in DOMAIN ui.sel : ui.rets[j]}})

C12_Witness ==
    /\ ui.op = "remove_selected_links"
    /\ Len(ui.prelist) = 3
    /\ Len(ui.sel) = 2
    /\ ui.rets = <<FALSE, TRUE>>
    /\ links_list = <<ui.prelist[1], ui.prelist[ui.sel[1]]>>
    /\ ui.sel[1] # 1

\* C13: no exception leaves create_link, remove_link, remove_all_links,
\* create_links or remove_selected_links: the handler just run completed
\* normally, and from the state reached every manager call completes
\* normally for every outcome of pw-dump and pw-link.
C13_NoExceptionEscapes ==
    /\ ~ui.exc
    /\ \A a \in Nodes, b \in Nodes :
          /\ \A q \in QueryOutcomes, rc \in Outcomes :
                ~create_link(internal_links, graph, a, b, q, rc).exc
          /\ \A rc \in Outcomes :
                ~remove_link(internal_links, graph, a, b, rc).exc
    /\ \A rcs \in [1..Len(internal_links) -> Outcomes] :
          ~remove_all_links(internal_links, graph, rcs).exc

C13_Witness ==
    /\ ui.op = "remove_selected_links"
    /\ Len(ui.sel) = 2
    /\ ui.rcs = <<"spawnfail", "exit0">>
    /\ ui.rets = <<FALSE, TRUE>>
    /\ ~ui.exc

\* C16: closeEvent runs remove_all_links once and only then accepts the
\* close; once the close is accepted the registry is empty.
C16_ShutdownCleanup ==
    /\ accepted => internal_links = <<>>
    /\ ui.op = "closeEvent"
          => /\ ui.steps = <<"remove_all_links", "accept">>
             /\ Len(ui.rcs) = Len(ui.pre)
             /\ accepted

C16_Witness ==
    /\ ui.op = "closeEvent"
    /\ Len(ui.pre) = 2
    /\ ui.rcs = <<"nonzero", "exit0">>
    /\ accepted
    /\ internal_links = <<>>

\* C17: whenever create_links or remove_selected_links has finished, the
\* displayed list holds the same pairs in the same order as the registry.
C17_ListMirrorsRegistry ==
    ui.op \in {"create_links", "remove_selected_links"}
        => links_list = internal_links

\* C18: the success count of create_links equals the growth of the
\* registry during the batch.
C18_CountIsGrowth ==
    ui.op = "create_links"
        => ui.count = Len(internal_links) - Len(ui.pre)

C18_Witness ==
    /\ ui.op = "create_links"
    /\ Len(ui.calls) = 2
    /\ ui.rets = <<TRUE, FALSE>>
    /\ ui.count = 1
    /\ Len(internal_links) = Len(ui.pre) + 1
    /\ ui.pre # <<>>

====
